---- MODULE Spec2Model ----
(***************************************************************************)
(* Model of the Flask service in                                           *)
(*   src/CICD Pipeline with GitHub Actions & Docker/app.py                 *)
(* The state is the process-wide data_store (visits, users, messages);     *)
(* every action is one HTTP request handled from before_request to the     *)
(* response: the visit increment, the credential gate, the handler and     *)
(* the rendering of the page.  Requests are handled one at a time.         *)
(* assigned, deleted and removed record the history: the ids handed out,   *)
(* the ids deleted, and how many records the last deletion removed.        *)
(* Spec handles one request at a time, each as one step.  ConcSpec lets    *)
(* the threads of the server handle requests at the same time, one         *)
(* statement of the handler per step; inflight holds their local state.    *)
(***************************************************************************)
EXTENDS Integers, Sequences, FiniteSets, TLC

VARIABLES users, messages, visits, req, resp, assigned, deleted, removed,
          inflight

vars == <<users, messages, visits, req, resp, assigned, deleted, removed,
          inflight>>

(***************************************************************************)
(* Bounds of the model.                                                    *)
(***************************************************************************)
MaxUsers == 3
MaxMessages == 2
MaxVisits == 5
MaxThreads == 2
MaxServed == 2

(***************************************************************************)
(* JSON values carried by request bodies.  A JSON string is a sequence of  *)
(* one-character strings; JSON null is a value of its own.  The handlers   *)
(* test only the presence of a key, so any JSON value can be stored.       *)
(***************************************************************************)
Str(s) == [t |-> "str", s |-> s]
Null == [t |-> "null", s |-> <<>>]

IsStr(v) == v.t = "str"

NameVals == {Str(<<"A", "l">>), Str(<<"b", "A">>), Str(<<>>), Null}
EmailVals == {Str(<<"e">>)}
ContentVals == {Str(<<"h">>)}
AuthorVals == {Str(<<"Z">>), Str(<<>>)}
Queries == {<<>>, <<"a">>, <<"A", "L">>}
(* datetime.utcnow().isoformat(): the handlers only store and slice it *)
Times == {"2024-01-01T00:00:00"}
Ids == 1..(MaxUsers + 1)

Anonymous == Str(<<"A", "n", "o", "n", "y", "m", "o", "u", "s">>)

ValidKey == "demo-api-key"
NoKey == "<absent>"
Keys == {NoKey, ValidKey, "wrong-key"}

FieldVals(k) ==
    CASE k = "name" -> NameVals
      [] k = "email" -> EmailVals
      [] k = "content" -> ContentVals
      [] k = "author" -> AuthorVals

(* request.get_json(): None, or the parsed object (a map from keys to values) *)
NoBody == [present |-> FALSE, obj |-> <<>>]
Objects(keys) ==
    UNION {{f \in [K -> UNION {FieldVals(k) : k \in K}] :
                \A k \in K : f[k] \in FieldVals(k)} : K \in SUBSET keys}
Bodies(keys) == {NoBody} \cup {[present |-> TRUE, obj |-> f] : f \in Objects(keys)}

(* Python truthiness of the parsed body: None and {} are falsy *)
Falsy(data) == ~data.present \/ DOMAIN data.obj = {}
HasKey(data, k) == k \in DOMAIN data.obj

(***************************************************************************)
(* str.lower() on the characters used here, and the substring test "in".   *)
(***************************************************************************)
LowerChar(c) ==
    CASE c = "A" -> "a"
      [] c = "B" -> "b"
      [] c = "L" -> "l"
      [] c = "Z" -> "z"
      [] OTHER -> c

Lower(s) == [i \in 1..Len(s) |-> LowerChar(s[i])]

Contains(needle, hay) ==
    \E i \in 0..(Len(hay) - Len(needle)) :
        SubSeq(hay, i + 1, i + Len(needle)) = needle

Reversed(s) == [i \in 1..Len(s) |-> s[Len(s) + 1 - i]]

(***************************************************************************)
(* Responses.  page names what was rendered, items the records it shows    *)
(* in order, counts the numbers printed on the page, texts the literal     *)
(* texts of the body.                                                      *)
(***************************************************************************)
SecurityHeaders ==
    {<<"X-Content-Type-Options", "nosniff">>,
     <<"X-Frame-Options", "DENY">>,
     <<"X-XSS-Protection", "1; mode=block">>,
     <<"Access-Control-Allow-Origin", "*">>,
     <<"Access-Control-Allow-Methods", "GET, POST, PUT, DELETE, OPTIONS">>,
     <<"Access-Control-Allow-Headers", "Content-Type, X-API-Key">>}

(* mutant: the headers are set on successful responses only *)
add_security_headers_SuccessOnly(response) ==
    IF response.status >= 400 THEN response
    ELSE [response EXCEPT !.headers = @ \cup SecurityHeaders]

(* after_request: runs on every response, error responses included *)
add_security_headers(response) ==
    [response EXCEPT !.headers = @ \cup SecurityHeaders]

Response(status, page, items, counts, texts) ==
    add_security_headers(
        [status |-> status, page |-> page, items |-> items,
         counts |-> counts, texts |-> texts, headers |-> {}])

NoRequest == [method |-> "NONE", route |-> "none", id |-> 0, key |-> NoKey,
              body |-> NoBody, q |-> <<>>]
Request(method, route) == [NoRequest EXCEPT !.method = method, !.route = route]

InternalError ==
    Response(500, "internal_error", <<>>, {}, {"Internal server error"})

Init ==
    /\ users = <<>>
    /\ messages = <<>>
    /\ visits = 0
    /\ req = NoRequest
    /\ resp = [status |-> 0, page |-> "none", items |-> <<>>, counts |-> {},
               texts |-> {}, headers |-> {}]
    /\ assigned = {}
    /\ deleted = {}
    /\ removed = 0
    /\ inflight = <<>>

(* mutant: the increment is skipped once a first visit has been counted *)
log_request_Once ==
    /\ visits < MaxVisits
    /\ visits' = IF visits = 0 THEN 1 ELSE visits

(* before_request: every request passes here first *)
log_request ==
    /\ visits < MaxVisits
    /\ visits' = visits + 1

(* GET / *)
home ==
    /\ log_request
    /\ req' = Request("GET", "/")
    /\ resp' = Response(200, "home", <<>>,
                        {<<"visits", visits'>>, <<"users", Len(users)>>,
                         <<"messages", Len(messages)>>},
                        {"Flask API",
                         "Modern RESTful API with authentication & monitoring",
                         "API Endpoints"})
    /\ UNCHANGED <<users, messages, assigned, deleted, removed, inflight>>

(* GET /api/health *)
health_check ==
    /\ log_request
    /\ req' = Request("GET", "/api/health")
    /\ resp' = Response(200, "health", <<>>, {},
                        {"Health Check", "System Healthy", "healthy", "1.0.0"})
    /\ UNCHANGED <<users, messages, assigned, deleted, removed, inflight>>

(* mutant: the page shows the counter as it was before this request *)
get_stats_StaleVisits ==
    /\ log_request
    /\ req' = Request("GET", "/api/stats")
    /\ resp' = Response(200, "stats", <<>>,
                        {<<"users", Len(users)>>, <<"messages", Len(messages)>>,
                         <<"visits", visits>>},
                        {"Statistics", "Real-time application metrics"})
    /\ UNCHANGED <<users, messages, assigned, deleted, removed, inflight>>

(* GET /api/stats *)
get_stats ==
    /\ log_request
    /\ req' = Request("GET", "/api/stats")
    /\ resp' = Response(200, "stats", <<>>,
                        {<<"users", Len(users)>>, <<"messages", Len(messages)>>,
                         <<"visits", visits'>>},
                        {"Statistics", "Real-time application metrics"})
    /\ UNCHANGED <<users, messages, assigned, deleted, removed, inflight>>

(* v[0].upper() is defined only on a non-empty string *)
HasAvatar(v) == IsStr(v) /\ Len(v.s) >= 1

(* GET /api/users: one card per user, in list order *)
UsersPage ==
    IF \A i \in 1..Len(users) : HasAvatar(users[i].name)
    THEN Response(200, "users", users, {<<"users", Len(users)>>},
                  IF users = <<>> THEN {"Users", "No users yet"} ELSE {"Users"})
    ELSE InternalError

users_GET ==
    /\ log_request
    /\ req' = Request("GET", "/api/users")
    /\ resp' = UsersPage
    /\ UNCHANGED <<users, messages, assigned, deleted, removed, inflight>>

(* mutant: the record is put in front of the list *)
Stored_InFront(list, record) == <<record>> \o list

(* list.append(record) *)
Stored(list, record) == Append(list, record)

(* mutant: the id is the current length, without the + 1 *)
NewUser_ZeroBased(data, now) ==
    [id |-> Len(users), name |-> data.obj["name"],
     email |-> data.obj["email"], created_at |-> now]

(* mutant: the id comes from a counter of the ids handed out so far *)
NewUser_Counter(data, now) ==
    [id |-> Cardinality(assigned) + 1, name |-> data.obj["name"],
     email |-> data.obj["email"], created_at |-> now]

NewUser(data, now) ==
    [id |-> Len(users) + 1, name |-> data.obj["name"],
     email |-> data.obj["email"], created_at |-> now]

(* mutant: the error body is returned without its status code *)
BadUserRequest_NoStatus ==
    Response(200, "bad_request", <<>>, {}, {"Name and email are required"})

BadUserRequest ==
    Response(400, "bad_request", <<>>, {}, {"Name and email are required"})

(* not data or 'name' not in data or 'email' not in data *)
InvalidUser(data) ==
    Falsy(data) \/ ~HasKey(data, "name") \/ ~HasKey(data, "email")

(* POST /api/users *)
users_POST ==
    \E data \in Bodies({"name", "email"}), now \in Times :
        /\ log_request
        /\ req' = [Request("POST", "/api/users") EXCEPT !.body = data]
        /\ IF InvalidUser(data)
           THEN /\ resp' = BadUserRequest
                /\ UNCHANGED <<users, assigned>>
           ELSE /\ Len(users) < MaxUsers
                /\ users' = Stored(users, NewUser(data, now))
                /\ assigned' = assigned \cup {Len(users) + 1}
                /\ resp' = Response(201, "user_created", <<NewUser(data, now)>>,
                                    {}, {"User created successfully"})
        /\ UNCHANGED <<messages, deleted, removed, inflight>>

(* mutant: the id is taken as a position in the list *)
Matching_ByPosition(user_id) ==
    IF user_id <= Len(users) THEN <<users[user_id]>> ELSE <<>>

(* next((u for u in users if u['id'] == user_id), None) *)
Matching(user_id) == SelectSeq(users, LAMBDA u : u.id = user_id)

(* mutant: a missing user is answered like a completed deletion *)
UserNotFound_AsSuccess ==
    Response(200, "user_deleted", <<>>, {}, {"User deleted successfully"})

UserNotFound ==
    Response(404, "user_not_found", <<>>, {}, {"User Not Found"})

(* the detail card concatenates name and email into the page *)
DetailPage(user) ==
    IF HasAvatar(user.name) /\ IsStr(user.email)
    THEN Response(200, "user_detail", <<user>>, {}, {"User Details"})
    ELSE InternalError

(* GET /api/users/<int:user_id> *)
user_detail_GET ==
    \E user_id \in Ids :
        /\ log_request
        /\ req' = [Request("GET", "/api/users/<id>") EXCEPT !.id = user_id]
        /\ resp' = IF Matching(user_id) = <<>>
                   THEN UserNotFound
                   ELSE DetailPage(Head(Matching(user_id)))
        /\ UNCHANGED <<users, messages, assigned, deleted, removed, inflight>>

(* mutant: only the first user with the id is removed *)
Remaining_FirstOnly(user_id) ==
    LET first == CHOOSE i \in 1..(Len(users) + 1) :
                    /\ i <= Len(users) => users[i].id = user_id
                    /\ \A j \in 1..(i - 1) : users[j].id # user_id
    IN SubSeq(users, 1, first - 1) \o SubSeq(users, first + 1, Len(users))

(* mutant: the comparison keeps only the users with a greater id *)
Remaining_GreaterOnly(user_id) == SelectSeq(users, LAMBDA u : u.id > user_id)

(* users = [u for u in users if u['id'] != user_id] *)
Remaining(user_id) == SelectSeq(users, LAMBDA u : u.id # user_id)

(* mutant: the user at position user_id is deleted, without the lookup *)
user_detail_DELETE_ByIndex ==
    \E user_id \in Ids :
        /\ log_request
        /\ req' = [Request("DELETE", "/api/users/<id>") EXCEPT !.id = user_id]
        /\ IF user_id > Len(users)
           THEN /\ resp' = UserNotFound
                /\ UNCHANGED <<users, deleted, removed>>
           ELSE /\ users' = SubSeq(users, 1, user_id - 1)
                                \o SubSeq(users, user_id + 1, Len(users))
                /\ deleted' = deleted \cup {user_id}
                /\ removed' = 1
                /\ resp' = Response(200, "user_deleted", <<>>, {},
                                    {"User deleted successfully"})
        /\ UNCHANGED <<messages, assigned, inflight>>

(* DELETE /api/users/<int:user_id> *)
user_detail_DELETE ==
    \E user_id \in Ids :
        /\ log_request
        /\ req' = [Request("DELETE", "/api/users/<id>") EXCEPT !.id = user_id]
        /\ IF Matching(user_id) = <<>>
           THEN /\ resp' = UserNotFound
                /\ UNCHANGED <<users, deleted, removed>>
           ELSE /\ users' = Remaining(user_id)
                /\ deleted' = deleted \cup {user_id}
                /\ removed' = Len(users) - Len(Remaining(user_id))
                /\ resp' = Response(200, "user_deleted", <<>>, {},
                                    {"User deleted successfully"})
        /\ UNCHANGED <<messages, assigned, inflight>>

(* mutant: the route is registered without the decorator's comparison *)
require_api_key_NoCheck(api_key) == TRUE

(* mutant: only the presence of the header is tested *)
require_api_key_AnyKey(api_key) == api_key # NoKey

(* require_api_key: the header must equal the configured key *)
require_api_key(api_key) == api_key = ValidKey

Unauthorized ==
    Response(401, "unauthorized", <<>>, {}, {"Invalid or missing API key"})

(* GET /api/messages page: one card per message, newest first *)
MessagesPage ==
    IF \A i \in 1..Len(messages) : HasAvatar(messages[i].author)
    THEN Response(200, "messages", Reversed(messages),
                  {<<"messages", Len(messages)>>},
                  IF messages = <<>> THEN {"Messages", "No messages yet"}
                                     ELSE {"Messages"})
    ELSE InternalError

(* mutant: the list is reversed in place before it is rendered *)
messages_GET_InPlaceReverse ==
    \E api_key \in Keys :
        /\ log_request
        /\ req' = [Request("GET", "/api/messages") EXCEPT !.key = api_key]
        /\ resp' = IF require_api_key(api_key) THEN MessagesPage
                                               ELSE Unauthorized
        /\ messages' = IF require_api_key(api_key) THEN Reversed(messages)
                                                   ELSE messages
        /\ UNCHANGED <<users, assigned, deleted, removed, inflight>>

messages_GET ==
    \E api_key \in Keys :
        /\ log_request
        /\ req' = [Request("GET", "/api/messages") EXCEPT !.key = api_key]
        /\ resp' = IF require_api_key(api_key) THEN MessagesPage
                                               ELSE Unauthorized
        /\ UNCHANGED <<users, messages, assigned, deleted, removed, inflight>>

(* mutant: data.get('author') or 'Anonymous' replaces falsy authors too *)
AuthorOf_OrDefault(data) ==
    IF HasKey(data, "author") /\ HasAvatar(data.obj["author"])
    THEN data.obj["author"] ELSE Anonymous

(* data.get('author', 'Anonymous') *)
AuthorOf(data) ==
    IF HasKey(data, "author") THEN data.obj["author"] ELSE Anonymous

(* mutant: the id is the current length, without the + 1 *)
NewMessage_ZeroBased(data, now) ==
    [id |-> Len(messages), content |-> data.obj["content"],
     author |-> AuthorOf(data), created_at |-> now]

NewMessage(data, now) ==
    [id |-> Len(messages) + 1, content |-> data.obj["content"],
     author |-> AuthorOf(data), created_at |-> now]

(* mutant: the error body is returned without its status code *)
BadMessageRequest_NoStatus ==
    Response(200, "bad_request", <<>>, {}, {"Content is required"})

BadMessageRequest ==
    Response(400, "bad_request", <<>>, {}, {"Content is required"})

(* not data or 'content' not in data *)
InvalidMessage(data) == Falsy(data) \/ ~HasKey(data, "content")

(* mutant: the body is validated before the key is compared *)
messages_POST_ValidateFirst ==
    \E api_key \in Keys, data \in Bodies({"content", "author"}), now \in Times :
        /\ log_request
        /\ req' = [Request("POST", "/api/messages")
                      EXCEPT !.key = api_key, !.body = data]
        /\ IF InvalidMessage(data)
           THEN /\ resp' = BadMessageRequest
                /\ UNCHANGED messages
           ELSE IF ~require_api_key(api_key)
           THEN /\ resp' = Unauthorized
                /\ UNCHANGED messages
           ELSE /\ Len(messages) < MaxMessages
                /\ messages' = Append(messages, NewMessage(data, now))
                /\ resp' = Response(201, "message_created",
                                    <<NewMessage(data, now)>>, {},
                                    {"Message posted successfully"})
        /\ UNCHANGED <<users, assigned, deleted, removed, inflight>>

(* POST /api/messages *)
messages_POST ==
    \E api_key \in Keys, data \in Bodies({"content", "author"}), now \in Times :
        /\ log_request
        /\ req' = [Request("POST", "/api/messages")
                      EXCEPT !.key = api_key, !.body = data]
        /\ IF ~require_api_key(api_key)
           THEN /\ resp' = Unauthorized
                /\ UNCHANGED messages
           ELSE IF InvalidMessage(data)
           THEN /\ resp' = BadMessageRequest
                /\ UNCHANGED messages
           ELSE /\ Len(messages) < MaxMessages
                /\ messages' = Stored(messages, NewMessage(data, now))
                /\ resp' = Response(201, "message_created",
                                    <<NewMessage(data, now)>>, {},
                                    {"Message posted successfully"})
        /\ UNCHANGED <<users, assigned, deleted, removed, inflight>>

(* [u for u in users if query in u['name'].lower()] *)
SearchResults(query) ==
    SelectSeq(users, LAMBDA u : Contains(query, Lower(u.name.s)))

SearchPage(query) ==
    IF query = <<>>
    THEN Response(200, "search_prompt", <<>>, {}, {"Search Users"})
    ELSE IF \E i \in 1..Len(users) : ~IsStr(users[i].name)
    THEN InternalError
    ELSE Response(200, "search_results", SearchResults(query),
                  {<<"results", Len(SearchResults(query))>>},
                  IF SearchResults(query) = <<>>
                  THEN {"Search Results", "No users found"}
                  ELSE {"Search Results"})

(* GET /api/search?q=... ; an absent q is the empty string *)
search ==
    \E q \in Queries :
        /\ log_request
        /\ req' = [Request("GET", "/api/search") EXCEPT !.q = q]
        /\ resp' = SearchPage(Lower(q))
        /\ UNCHANGED <<users, messages, assigned, deleted, removed, inflight>>

(* a path no route matches: errorhandler(404) *)
not_found ==
    /\ log_request
    /\ req' = Request("GET", "<unmatched>")
    /\ resp' = Response(404, "not_found", <<>>, {}, {"Resource not found"})
    /\ UNCHANGED <<users, messages, assigned, deleted, removed, inflight>>

Next ==
    \/ home
    \/ health_check
    \/ get_stats
    \/ users_GET
    \/ users_POST
    \/ user_detail_GET
    \/ user_detail_DELETE
    \/ messages_GET
    \/ messages_POST
    \/ search
    \/ not_found

Spec == Init /\ [][Next]_vars

(***************************************************************************)
(* Concurrent handling.  app.run() serves each request in a thread of its  *)
(* own and the handlers take no lock, so the statements of two requests    *)
(* interleave.  A thread goes through the statements of its request one    *)
(* step at a time: the read and the write of visits += 1, the handler's    *)
(* read of the store (the new record with its id, or the lookup and the    *)
(* filtered list of a deletion), the write to the store, the response.     *)
(***************************************************************************)
Threads == 1..MaxThreads

Idle == [pc |-> "idle", op |-> "none", id |-> 0, data |-> NoBody, v |-> 0,
         rec |-> <<>>, served |-> 0]

ConcRequests ==
    {[op |-> "create_user", id |-> 0,
      data |-> [present |-> TRUE,
                obj |-> [k \in {"name", "email"} |->
                            IF k = "name" THEN Str(<<"A", "l">>)
                                          ELSE Str(<<"e">>)]]],
     [op |-> "create_message", id |-> 0,
      data |-> [present |-> TRUE,
                obj |-> [k \in {"content"} |-> Str(<<"h">>)]]]}
    \cup {[op |-> "delete_user", id |-> i, data |-> NoBody] : i \in 1..2}

ConcInit ==
    /\ users = <<>>
    /\ messages = <<>>
    /\ visits = 0
    /\ req = NoRequest
    /\ resp = [status |-> 0, page |-> "none", items |-> <<>>, counts |-> {},
               texts |-> {}, headers |-> {}]
    /\ assigned = {}
    /\ deleted = {}
    /\ removed = 0
    /\ inflight = [t \in Threads |-> Idle]

(* a thread takes a request *)
accept(t) ==
    /\ inflight[t].pc = "idle"
    /\ inflight[t].served < MaxServed
    /\ \E r \in ConcRequests :
          inflight' = [inflight EXCEPT
                          ![t] = [@ EXCEPT !.pc = "visits_read", !.op = r.op,
                                           !.id = r.id, !.data = r.data]]
    /\ UNCHANGED <<users, messages, visits, req, resp, assigned, deleted,
                   removed>>

(* data_store['visits'] += 1: the read of the old value *)
visits_read(t) ==
    /\ inflight[t].pc = "visits_read"
    /\ inflight' = [inflight EXCEPT
                       ![t] = [@ EXCEPT !.pc = "visits_write", !.v = visits]]
    /\ UNCHANGED <<users, messages, visits, req, resp, assigned, deleted,
                   removed>>

(* data_store['visits'] += 1: the write of the old value + 1 *)
visits_write(t) ==
    /\ inflight[t].pc = "visits_write"
    /\ visits' = inflight[t].v + 1
    /\ inflight' = [inflight EXCEPT ![t] = [@ EXCEPT !.pc = "handle"]]
    /\ UNCHANGED <<users, messages, req, resp, assigned, deleted, removed>>

(* user = {'id': len(users) + 1, ...}: the record is built from the list
   as it is now *)
build_user(t) ==
    /\ inflight[t].pc = "handle"
    /\ inflight[t].op = "create_user"
    /\ \E now \in Times :
          inflight' = [inflight EXCEPT
                          ![t] = [@ EXCEPT !.pc = "append",
                                           !.rec = <<NewUser(inflight[t].data, now)>>]]
    /\ UNCHANGED <<users, messages, visits, req, resp, assigned, deleted,
                   removed>>

(* data_store['users'].append(user) *)
append_user(t) ==
    /\ inflight[t].pc = "append"
    /\ inflight[t].op = "create_user"
    /\ users' = Stored(users, inflight[t].rec[1])
    /\ assigned' = assigned \cup {inflight[t].rec[1].id}
    /\ inflight' = [inflight EXCEPT ![t] = [@ EXCEPT !.pc = "respond"]]
    /\ UNCHANGED <<messages, visits, req, resp, deleted, removed>>

(* message = {'id': len(messages) + 1, ...} *)
build_message(t) ==
    /\ inflight[t].pc = "handle"
    /\ inflight[t].op = "create_message"
    /\ \E now \in Times :
          inflight' = [inflight EXCEPT
                          ![t] = [@ EXCEPT !.pc = "append",
                                           !.rec = <<NewMessage(inflight[t].data, now)>>]]
    /\ UNCHANGED <<users, messages, visits, req, resp, assigned, deleted,
                   removed>>

(* data_store['messages'].append(message) *)
append_message(t) ==
    /\ inflight[t].pc = "append"
    /\ inflight[t].op = "create_message"
    /\ messages' = Stored(messages, inflight[t].rec[1])
    /\ inflight' = [inflight EXCEPT ![t] = [@ EXCEPT !.pc = "respond"]]
    /\ UNCHANGED <<users, visits, req, resp, assigned, deleted, removed>>

(* the lookup of user_detail, and for a found user the evaluation of
   [u for u in users if u['id'] != user_id] *)
filter_users(t) ==
    /\ inflight[t].pc = "handle"
    /\ inflight[t].op = "delete_user"
    /\ inflight' = [inflight EXCEPT
                       ![t] = IF Matching(inflight[t].id) = <<>>
                              THEN [@ EXCEPT !.pc = "respond", !.rec = <<>>]
                              ELSE [@ EXCEPT !.pc = "assign",
                                             !.rec = Remaining(inflight[t].id)]]
    /\ UNCHANGED <<users, messages, visits, req, resp, assigned, deleted,
                   removed>>

(* data_store['users'] = <the filtered list> *)
assign_users(t) ==
    /\ inflight[t].pc = "assign"
    /\ users' = inflight[t].rec
    /\ deleted' = deleted \cup {inflight[t].id}
    /\ removed' = Len(users) - Len(inflight[t].rec)
    /\ inflight' = [inflight EXCEPT
                       ![t] = [@ EXCEPT !.pc = "respond", !.rec = <<"deleted">>]]
    /\ UNCHANGED <<messages, visits, req, resp, assigned>>

(* the response of the request, and the thread is free again *)
respond(t) ==
    /\ inflight[t].pc = "respond"
    /\ req' = [Request(IF inflight[t].op = "delete_user" THEN "DELETE" ELSE "POST",
                       CASE inflight[t].op = "create_user" -> "/api/users"
                         [] inflight[t].op = "create_message" -> "/api/messages"
                         [] OTHER -> "/api/users/<id>")
                  EXCEPT !.id = inflight[t].id, !.body = inflight[t].data,
                         !.key = IF inflight[t].op = "create_message"
                                 THEN ValidKey ELSE NoKey]
    /\ resp' = CASE inflight[t].op = "create_user" ->
                      Response(201, "user_created", inflight[t].rec, {},
                               {"User created successfully"})
                 [] inflight[t].op = "create_message" ->
                      Response(201, "message_created", inflight[t].rec, {},
                               {"Message posted successfully"})
                 [] inflight[t].rec = <<>> -> UserNotFound
                 [] OTHER ->
                      Response(200, "user_deleted", <<>>, {},
                               {"User deleted successfully"})
    /\ inflight' = [inflight EXCEPT
                       ![t] = [Idle EXCEPT !.served = inflight[t].served + 1]]
    /\ UNCHANGED <<users, messages, visits, assigned, deleted, removed>>

ConcNext ==
    \E t \in Threads :
        \/ accept(t)
        \/ visits_read(t)
        \/ visits_write(t)
        \/ build_user(t)
        \/ append_user(t)
        \/ build_message(t)
        \/ append_message(t)
        \/ filter_users(t)
        \/ assign_users(t)
        \/ respond(t)

ConcSpec == ConcInit /\ [][ConcNext]_vars

(***************************************************************************)
(* Properties.  Every step of Spec is one handled request, so a property   *)
(* of a request is an action formula over the state before it (unprimed)   *)
(* and the request, response and store after it (primed).                  *)
(***************************************************************************)
HasUser(us, user_id) == \E i \in 1..Len(us) : us[i].id = user_id

IsDelete(r) == r.method = "DELETE" /\ r.route = "/api/users/<id>"
IsGetUser(r) == r.method = "GET" /\ r.route = "/api/users/<id>"
IsPostUser(r) == r.method = "POST" /\ r.route = "/api/users"
IsPostMessage(r) == r.method = "POST" /\ r.route = "/api/messages"
IsGetMessages(r) == r.method = "GET" /\ r.route = "/api/messages"
IsSearch(r) == r.method = "GET" /\ r.route = "/api/search"

C2_VisitsCountRequests ==
    [][/\ visits' = visits + 1
       /\ resp'.status \in {200, 201, 400, 401, 404, 500}]_vars

C2_Witness ==
    /\ visits = 3
    /\ resp.status \in {400, 401, 404}

(* C3: a POST /api/users answered 201 gave the new user the id (number of
   users before the request) + 1, appended it as the last element and
   returned it; the users before it are untouched. *)
C3_CreateAssignsLengthPlusOne ==
    [][(IsPostUser(req') /\ resp'.status = 201) =>
          /\ Len(users') = Len(users) + 1
          /\ SubSeq(users', 1, Len(users)) = users
          /\ users'[Len(users')].id = Len(users) + 1
          /\ users'[Len(users')].name = req'.body.obj["name"]
          /\ users'[Len(users')].email = req'.body.obj["email"]
          /\ resp'.items = <<users'[Len(users')]>>]_vars

C3_Witness ==
    /\ IsPostUser(req)
    /\ resp.status = 201
    /\ Len(users) = 2
    /\ users[1].id = 1
    /\ users[2].id = 2

C5_BadKeyRejected ==
    [][(IsPostMessage(req') /\ req'.key # "demo-api-key") =>
          /\ resp'.status = 401
          /\ messages' = messages
          /\ users' = users]_vars

C5_Witness ==
    /\ IsPostMessage(req)
    /\ req.key = "wrong-key"
    /\ "content" \in DOMAIN req.body.obj
    /\ resp.status = 401
    /\ Len(messages) >= 1

(* C6 as stated: GET /api/users/{id} is answered 404 for an id never
   assigned and, once a user with the id has been deleted, on every later
   GET whatever happened in between. *)
C6_DeletedStaysNotFound ==
    (IsGetUser(req) /\ (req.id \notin assigned \/ req.id \in deleted)) =>
        resp.status = 404

(* C6 amended: GET /api/users/{id} is answered 404 exactly when no stored
   user has the id: always for an id never assigned, and for the id of a
   deleted user until a later creation assigns that id again. *)
C6_NotFoundIffAbsent ==
    IsGetUser(req) =>
        /\ (resp.status = 404) <=> ~HasUser(users, req.id)
        /\ req.id \notin assigned => resp.status = 404

C6_Witness ==
    /\ IsGetUser(req)
    /\ req.id \in deleted
    /\ resp.status = 404
    /\ users # <<>>

(* C7: an authorized GET /api/messages lists the stored messages newest
   first: the i-th listed message is the (n+1-i)-th stored one. *)
C7_NewestFirst ==
    (IsGetMessages(req) /\ req.key = "demo-api-key") =>
        /\ resp.page = "messages"
        /\ Len(resp.items) = Len(messages)
        /\ \A i \in 1..Len(messages) :
              resp.items[i] = messages[Len(messages) + 1 - i]

(* C8: an authorized POST /api/messages with content stores the author
   "Anonymous" when the body has no author key, and the supplied value
   when it has one. *)
C8_AuthorDefault ==
    [][(IsPostMessage(req') /\ resp'.status = 201) =>
          LET m == messages'[Len(messages')]
              body == req'.body.obj
          IN /\ Len(messages') = Len(messages) + 1
             /\ "author" \notin DOMAIN body =>
                   m.author = [t |-> "str",
                               s |-> <<"A", "n", "o", "n", "y", "m", "o", "u", "s">>]
             /\ "author" \in DOMAIN body => m.author = body["author"]]_vars

C8_Witness ==
    /\ IsPostMessage(req)
    /\ resp.status = 201
    /\ DOMAIN req.body.obj = {"content"}
    /\ messages[Len(messages)].author.s[1] = "A"

(* a name matches q when it is a string that has q at some offset, both
   compared character by character in lower case *)
NameMatches(name, q) ==
    /\ name.t = "str"
    /\ \E off \in 0..(Len(name.s) - Len(q)) :
          \A k \in 1..Len(q) : LowerChar(name.s[off + k]) = LowerChar(q[k])

(* C9: GET /api/search with a non-empty q returns exactly the users whose
   name contains q, case-insensitively, in the order of the store. *)
C9_SearchExact ==
    (IsSearch(req) /\ req.q # <<>>) =>
        LET hits == {i \in 1..Len(users) : NameMatches(users[i].name, req.q)}
        IN /\ resp.page = "search_results"
           /\ Len(resp.items) = Cardinality(hits)
           /\ \A i \in hits :
                 resp.items[Cardinality({j \in hits : j <= i})] = users[i]

(* C10: GET / is answered 200 with a body that contains "Hello, World!". *)
C10_HelloWorld ==
    (req.method = "GET" /\ req.route = "/") =>
        /\ resp.status = 200
        /\ "Hello, World!" \in resp.texts

IsGetUsers(r) == r.method = "GET" /\ r.route = "/api/users"
IsMessages(r) == r.route = "/api/messages"
Handled(r) == r.method # "NONE"

(* C11: GET /api/users is answered 200 in every reachable store state, and
   an empty collection gives the empty-state page. *)
C11_UsersListSucceeds ==
    IsGetUsers(req) =>
        /\ resp.status = 200
        /\ users = <<>> => "No users yet" \in resp.texts

(* C12: GET /api/messages with the correct key is answered 200 in every
   reachable store state; the only failure is 401 for a bad or missing key. *)
C12_MessagesListSucceeds ==
    IsGetMessages(req) =>
        IF req.key = "demo-api-key" THEN resp.status = 200
                                    ELSE resp.status = 401

(* C13: on the two message routes the handler runs exactly when X-API-Key
   equals the configured secret 'demo-api-key' (otherwise the answer is the
   401 of the gate); every other route is served with no credential and
   never answers 401. *)
C13_GateOnMessageRoutesOnly ==
    /\ IsMessages(req) =>
          /\ (resp.status = 401) <=> (req.key # "demo-api-key")
          /\ (resp.page = "unauthorized") <=> (req.key # "demo-api-key")
    /\ (Handled(req) /\ ~IsMessages(req)) =>
          /\ req.key = "<absent>"
          /\ resp.status # 401
          /\ resp.page # "unauthorized"

C13_Witness ==
    /\ IsGetMessages(req)
    /\ req.key = "<absent>"
    /\ resp.status = 401
    /\ Len(users) >= 1
    /\ Len(messages) >= 1

C15_HeadersOnEveryResponse ==
    Handled(req) =>
        /\ <<"X-Content-Type-Options", "nosniff">> \in resp.headers
        /\ <<"X-Frame-Options", "DENY">> \in resp.headers
        /\ <<"Access-Control-Allow-Origin", "*">> \in resp.headers
        /\ <<"Access-Control-Allow-Methods", "GET, POST, PUT, DELETE, OPTIONS">>
              \in resp.headers
        /\ <<"Access-Control-Allow-Headers", "Content-Type, X-API-Key">>
              \in resp.headers

C15_Witness ==
    /\ resp.status = 500
    /\ <<"X-Frame-Options", "DENY">> \in resp.headers

(* C16: a DELETE /api/users/{id} for an id no stored user has leaves the
   users and the messages unchanged; so a DELETE that repeats the id of the
   DELETE before it changes nothing. *)
C16_UnmatchedDeleteChangesNothing ==
    [][/\ (IsDelete(req') /\ ~HasUser(users, req'.id)) =>
             users' = users /\ messages' = messages
       /\ (IsDelete(req) /\ IsDelete(req') /\ req'.id = req.id) =>
             users' = users /\ messages' = messages]_vars

C16_Witness ==
    /\ IsDelete(req)
    /\ resp.page = "user_not_found"
    /\ Len(users) >= 1
    /\ Len(messages) >= 1
    /\ req.id <= Len(users)

(* C17: a DELETE /api/users/{id} that finds a match removes every stored
   user with that id: afterwards no user has the id, and the users with
   other ids remain in their previous relative order. *)
C17_DeleteRemovesAllMatches ==
    [][(IsDelete(req') /\ HasUser(users, req'.id)) =>
          LET keep == {i \in 1..Len(users) : users[i].id # req'.id}
          IN /\ ~HasUser(users', req'.id)
             /\ Len(users') = Cardinality(keep)
             /\ \A i \in keep :
                   users'[Cardinality({j \in keep : j <= i})] = users[i]]_vars

C17_Witness ==
    /\ IsDelete(req)
    /\ resp.status = 200
    /\ removed = 2

SharedId(us) == \E i, j \in 1..Len(us) : i # j /\ us[i].id = us[j].id

(* C18: user ids are not unique across deletions: the id is the current
   length + 1, so a creation made while a stored user already has that id
   leaves two stored users with the same id (create, create, delete id 1,
   create). *)
C18_IdReusedAfterDeletion ==
    [][(IsPostUser(req') /\ resp'.status = 201
          /\ HasUser(users, Len(users) + 1)) => SharedId(users')]_vars

C18_Witness ==
    /\ Len(users) = 2
    /\ users[1].id = 2
    /\ users[2].id = 2
    /\ 1 \in deleted

(* C19: GET /api/users/{id} returns the first user in insertion order among
   those with the id, and the not-found page when none has it. *)
C19_FirstMatchReturned ==
    IsGetUser(req) =>
        LET hits == {i \in 1..Len(users) : users[i].id = req.id}
        IN IF hits = {}
           THEN resp.status = 404
           ELSE /\ resp.status = 200
                /\ resp.items = <<users[CHOOSE i \in hits :
                                            \A j \in hits : i <= j]>>

(* C20: every stored user has a non-empty name and a non-empty email. *)
C20_StoredUsersNonEmpty ==
    \A i \in 1..Len(users) :
        /\ users[i].name.t = "str" /\ users[i].name.s # <<>>
        /\ users[i].email.t = "str" /\ users[i].email.s # <<>>

(* C21: on the message routes the key is checked before anything else: a
   POST with a bad or missing key and a body without content is answered
   401, never 400, and a GET with a bad key renders no message. *)
C21_GateBeforeHandler ==
    /\ (/\ IsPostMessage(req)
        /\ req.key # "demo-api-key"
        /\ (~req.body.present \/ "content" \notin DOMAIN req.body.obj)) =>
          resp.status = 401
    /\ (IsGetMessages(req) /\ req.key # "demo-api-key") =>
          /\ resp.status = 401
          /\ resp.items = <<>>
          /\ resp.counts = {}

C21_Witness ==
    /\ IsPostMessage(req)
    /\ req.key = "wrong-key"
    /\ ~req.body.present
    /\ resp.status = 401

(* C22: the GET operations (home, health, stats, user list, user detail,
   message list, search) leave users and messages unchanged; they change
   only the visit counter, by one. *)
C22_ReadsChangeOnlyVisits ==
    [][req'.method = "GET" =>
          /\ users' = users
          /\ messages' = messages
          /\ visits' = visits + 1]_vars

C22_Witness ==
    /\ IsGetMessages(req)
    /\ req.key = "demo-api-key"
    /\ resp.status = 200
    /\ Len(messages) = 2
    /\ messages[1] # messages[2]

(* C23: the stats page shows users = length of users, messages = length of
   messages and visits = the counter including the stats request itself;
   every users or messages count shown by the home page and the listing
   pages is the same length. *)
C23_CountsAreLengths ==
    /\ (req.route = "/api/stats" \/ req.route = "/") =>
          resp.counts = {<<"users", Len(users)>>,
                         <<"messages", Len(messages)>>,
                         <<"visits", visits>>}
    /\ \A c \in resp.counts :
          /\ c[1] = "users" => c[2] = Len(users)
          /\ c[1] = "messages" => c[2] = Len(messages)
    /\ (IsGetUsers(req) /\ resp.status = 200) =>
          <<"users", Len(users)>> \in resp.counts
    /\ (IsGetMessages(req) /\ resp.status = 200) =>
          <<"messages", Len(messages)>> \in resp.counts

C23_Witness ==
    /\ req.route = "/api/stats"
    /\ Len(users) = 2
    /\ Len(messages) = 1
    /\ visits = 4

(* C24: the messages are append-only: across every step the old list is a
   prefix of the new one, so no message is removed or changed and the
   length never decreases. *)
C24_MessagesAppendOnly ==
    [][/\ Len(messages') >= Len(messages)
       /\ SubSeq(messages', 1, Len(messages)) = messages]_vars

C24_Witness ==
    /\ IsPostMessage(req)
    /\ resp.status = 201
    /\ Len(messages) = 2
    /\ messages[1].author # messages[2].author

(* C25: under sequential handling the i-th stored message has id i, so the
   message ids are pairwise distinct. *)
C25_MessageIdIsPosition ==
    /\ \A i \in 1..Len(messages) : messages[i].id = i
    /\ \A i, j \in 1..Len(messages) :
          messages[i].id = messages[j].id => i = j

C25_Witness ==
    /\ Len(messages) = 2
    /\ messages[1].id = 1
    /\ messages[2].id = 2
    /\ visits = 5

(* C26: a stored user never changes and stays in the store, in order,
   through every request except a DELETE with its own id. *)
C26_UsersImmutable ==
    [][LET keep == {i \in 1..Len(users) :
                       ~(IsDelete(req') /\ req'.id = users[i].id)}
       IN /\ Len(users') >= Cardinality(keep)
          /\ \A i \in keep :
                users'[Cardinality({j \in keep : j <= i})] = users[i]]_vars

C26_Witness ==
    /\ visits = 5
    /\ Len(users) = 1
    /\ users[1].id = 1
    /\ deleted = {2}
    /\ IsSearch(req)

(* C28: GET /api/search never fails: an empty or absent q gives the 200
   prompt page, and a non-empty q that matches no user gives a 200 page
   with no results. *)
C28_SearchNeverFails ==
    IsSearch(req) =>
        IF req.q = <<>>
        THEN resp.status = 200 /\ resp.page = "search_prompt"
        ELSE (\A i \in 1..Len(users) : ~NameMatches(users[i].name, req.q)) =>
                /\ resp.status = 200
                /\ resp.page = "search_results"
                /\ resp.items = <<>>

(* C29: every stored user's id is at least its 1-based position in the
   list, and at least 1. *)
C29_IdAtLeastPosition ==
    \A i \in 1..Len(users) : users[i].id >= i /\ users[i].id >= 1

C29_Witness ==
    /\ Len(users) = 1
    /\ users[1].id = 3
    /\ deleted = {1, 2}

Building(t, op) == inflight[t].pc = "append" /\ inflight[t].op = op

(* C27: store mutations are serialized under concurrent handling: the
   length read for the id and the append are one atomic step, so two
   creations in progress never hold the same id, and a deletion writes
   back a list filtered from the store as it is at that moment, so no
   created record is lost. *)
C27_MutationsSerialized ==
    /\ \A t1, t2 \in DOMAIN inflight :
          \A op \in {"create_user", "create_message"} :
              (t1 # t2 /\ Building(t1, op) /\ Building(t2, op)) =>
                  inflight[t1].rec[1].id # inflight[t2].rec[1].id
    /\ \A t \in DOMAIN inflight :
          inflight[t].pc = "assign" =>
              inflight[t].rec = SelectSeq(users,
                                    LAMBDA u : u.id # inflight[t].id)

====
